---- MODULE Spec2Model ----
(***************************************************************************)
(* Model of rengine's 2D sprite batch renderer                             *)
(* (modules/renderer_2d/src/renderer.rs): the SpriteRenderer state, its    *)
(* three operations new/draw/resize/submit, the wgpu StagingBelt it drives *)
(* and the GPU queue that consumes the submitted command buffers.          *)
(***************************************************************************)
EXTENDS Integers, Sequences, FiniteSets, TLC

VARIABLES
    queue,            \* SpriteRenderer.queue : Vec<SpriteInstance>
    queue_capacity,   \* the capacity of the allocation behind SpriteRenderer.queue
    proj_matrix,      \* SpriteRenderer.proj_matrix : Matrix3<f32>
    depth_texture,    \* SpriteRenderer.depth_texture(+view,+sampler): its extent
    belt,             \* SpriteRenderer.sprite_staging_belt (chunks and its channel)
    staging_mem,      \* memory of every staging buffer created so far, by buffer id
    pending_maps,     \* map_async requests of recall() whose callback has not run
    gpu_queue,        \* command buffers handed to ctx.queue.submit, not yet executed
    instance_buf,     \* contents of SpriteRenderer.sprite_instance_buf on the GPU
    rendered,         \* what the last executed render pass drew
    status,           \* "ok", or "panicked" once a call has panicked
    window_size,      \* history: the size given to the latest new / resize
    issued,           \* history: the draw requests issued since the last submit
    call,             \* history: the renderer call that produced this state
    submissions,      \* number of command buffers submitted to the GPU queue so far
    draws_left,       \* exploration budget: draw calls still explored from here
    completions_left  \* exploration budget: GPU completions still explored from here

vars == <<queue, queue_capacity, proj_matrix, depth_texture, belt, staging_mem, pending_maps,
          gpu_queue, instance_buf, rendered, status, window_size, issued, call,
          submissions, draws_left, completions_left>>

----------------------------------------------------------------------------
(* Bounds of the exploration. *)

\* draw calls explored in one run from the freshly constructed renderer
MaxDraws == 3
\* GPU completions explored in one run from the freshly constructed renderer
MaxCompletions == 2
\* draw calls and GPU completions explored from a renderer that starts loaded
MaxLoadedDraws == 2
MaxLoadedCompletions == 1
\* the largest width and height in the grid of window sizes the projection is tried on
MaxSide == 12

----------------------------------------------------------------------------
(* Program constants. *)

MAX_BATCHES == 100
MAX_SPRITES_PER_BATCH == 5000
\* size_of::<SpriteInstance>(): 9 + 2 + 2 + 3 + 1 = 17 f32 of 4 bytes, repr(C)
SIZE_OF_SPRITE_INSTANCE == 68
\* wgpu::MAP_ALIGNMENT, to which StagingBelt aligns a chunk's next offset
MAP_ALIGNMENT == 8

\* StagingBelt::new(size_of::<SpriteInstance>() as u64 * MAX_SPRITES_PER_BATCH)
BeltChunkSize == SIZE_OF_SPRITE_INSTANCE * MAX_SPRITES_PER_BATCH
\* create_sprite_instance_buf: the size of the instance buffer, in bytes
InstanceBufSize == MAX_SPRITES_PER_BATCH * MAX_BATCHES * SIZE_OF_SPRITE_INSTANCE

----------------------------------------------------------------------------
(* f32 values, kept as reduced fractions <<num, den>> with den > 0: an f32  *)
(* is num * 2^-k with |num| < 2^24. Every operation rounds its exact       *)
(* result to the nearest f32, ties to even, as IEEE 754 arithmetic does;   *)
(* the exponent range of f32 (overflow, subnormals) is not modelled.       *)

Max(a, b) == IF a >= b THEN a ELSE b
Abs(n) == IF n < 0 THEN -n ELSE n

RECURSIVE GCD(_, _)
GCD(a, b) == IF b = 0 THEN a ELSE GCD(b, a % b)

\* the exact fraction n / d in lowest terms
Reduce(n, d) == LET g == GCD(Abs(n), d) IN <<n \div g, d \div g>>

RECURSIVE IsPow2(_)
IsPow2(d) == d = 1 \/ (d % 2 = 0 /\ IsPow2(d \div 2))

\* n / d brought into [1, 2) by doubling one side: <<n * 2^a, d * 2^b>>
RECURSIVE Normalize(_, _)
Normalize(n, d) ==
    IF n < d THEN Normalize(2 * n, d)
    ELSE IF n >= 2 * d THEN Normalize(n, 2 * d)
    ELSE <<n, d>>

\* long division: bits more binary digits of the quotient appended to m, r the
\* remainder so far; gives <<significand, remainder>>
RECURSIVE Significand(_, _, _, _)
Significand(m, r, d, bits) ==
    IF bits = 0 THEN <<m, r>>
    ELSE IF 2 * r >= d THEN Significand(2 * m + 1, 2 * r - d, d, bits - 1)
    ELSE Significand(2 * m, 2 * r, d, bits - 1)

\* round to nearest, ties to even: the 24-bit significand of a quotient whose
\* truncation is m with remainder r out of d
RoundEven(m, r, d) ==
    IF 2 * r > d \/ (2 * r = d /\ m % 2 = 1) THEN m + 1 ELSE m

\* the fraction f * up / down in lowest terms, up and down powers of two
Scale(f, up, down) ==
    LET g1 == GCD(up, f[2])
        g2 == GCD(f[1], down)
    IN  <<(f[1] \div g2) * (up \div g1), (f[2] \div g1) * (down \div g2)>>

\* the f32 nearest to n / d, for n > 0 and d > 0
RoundF32(n, d) ==
    LET nd == Normalize(n, d)
        sr == Significand(1, nd[1] - nd[2], nd[2], 23)
        m  == RoundEven(sr[1], sr[2], nd[2])
    IN  Scale(Reduce(m, 2 ^ 23), nd[2] \div d, nd[1] \div n)

\* the f32 nearest to the exact value n / d: what an f32 operation whose exact
\* result is n / d returns
Frac(n, d) ==
    LET r == Reduce(n, d)
    IN  IF r[1] = 0 THEN <<0, 1>>
        ELSE IF Abs(r[1]) < 2 ^ 24 /\ IsPow2(r[2]) THEN r
        ELSE IF r[1] > 0 THEN RoundF32(r[1], r[2])
        ELSE <<-RoundF32(-r[1], r[2])[1], RoundF32(-r[1], r[2])[2]>>

\* n as f32
FInt(n) == Frac(n, 1)
\* a * b, a + b, a / b and a < b on f32
\* (products with 0 or 1 and sums with 0 are exact in f32)
FMul(a, b) ==
    LET g1 == GCD(Abs(a[1]), b[2])
        g2 == GCD(Abs(b[1]), a[2])
    IN  IF a[1] = 0 \/ b[1] = 0 THEN <<0, 1>>
        ELSE IF b = <<1, 1>> THEN a
        ELSE IF a = <<1, 1>> THEN b
        ELSE Frac((a[1] \div g1) * (b[1] \div g2), (a[2] \div g2) * (b[2] \div g1))
FAdd(a, b) ==
    LET g == GCD(a[2], b[2])
    IN  IF a[1] = 0 THEN b
        ELSE IF b[1] = 0 THEN a
        ELSE Frac(a[1] * (b[2] \div g) + b[1] * (a[2] \div g), (a[2] \div g) * b[2])
FDiv(a, b) == Frac(a[1] * b[2], a[2] * b[1])
FLess(a, b) == a[1] * b[2] < b[1] * a[2]

\* cgmath::Matrix3 is column-major: m[c][r] is row r of column c.
\* Matrix3 * Matrix3: column j of the product is m * n[j].
MatMul(m, n) ==
    [j \in 1..3 |->
        [r \in 1..3 |->
            FAdd(FAdd(FMul(m[1][r], n[j][1]), FMul(m[2][r], n[j][2])),
                 FMul(m[3][r], n[j][3]))]]

\* Matrix3::from_nonuniform_scale(x, y)
from_nonuniform_scale(x, y) ==
    << <<x, FInt(0), FInt(0)>>, <<FInt(0), y, FInt(0)>>, <<FInt(0), FInt(0), FInt(1)>> >>

\* a projection that always compresses the horizontal axis
proj_scale_wide_only(size) == <<Frac(size[2], size[1]), FInt(1)>>

\* the (x, y) scale compute_proj_matrix picks for a window of w by h pixels
proj_scale(size) ==
    LET w == FInt(size[1])
        h == FInt(size[2])
    IN  IF FLess(w, h) THEN <<FInt(1), FDiv(w, h)>> ELSE <<FDiv(h, w), FInt(1)>>

compute_proj_matrix(size) ==
    from_nonuniform_scale(proj_scale(size)[1], proj_scale(size)[2])

----------------------------------------------------------------------------
(* Inputs. *)

\* window sizes given to new and resize
WindowSizes == { <<800, 600>>, <<600, 800>> }

\* Atlas.sheets: the sprite sheets of the built atlas, by handle (pixel extent)
AtlasSheets == << [w |-> 64, h |-> 32], [w |-> 16, h |-> 16] >>

Identity3 == from_nonuniform_scale(FInt(1), FInt(1))
\* scale by 2 and translate by (3, 1)
Moved3 ==
    << <<FInt(2), FInt(0), FInt(0)>>, <<FInt(0), FInt(2), FInt(0)>>,
       <<FInt(3), FInt(1), FInt(1)>> >>

\* the (Sprite, DrawParams) pairs given to draw, by request number
DrawRequests ==
    << [sprite |-> [sheet |-> 1, position |-> <<16, 8>>, size |-> <<16, 16>>],
        params |-> [transform |-> Identity3, tint |-> <<1, 1, 1>>, depth |-> 0]],
       [sprite |-> [sheet |-> 2, position |-> <<0, 8>>, size |-> <<8, 8>>],
        params |-> [transform |-> Moved3, tint |-> <<1, 0, 0>>, depth |-> 1]] >>

\* SpriteSheet::tex_coords / tex_dims: a pixel rectangle to normalized coordinates
tex_coords(sheet, position) == <<Frac(position[1], sheet.w), Frac(position[2], sheet.h)>>
tex_dims(sheet, size) == <<Frac(size[1], sheet.w), Frac(size[2], sheet.h)>>

----------------------------------------------------------------------------
(* SpriteRenderer::draw *)

\* the SpriteInstance draw builds from its arguments and the current projection
MakeInstance(proj, sprite, params) ==
    LET spritesheet == AtlasSheets[sprite.sheet]
    IN  [transform |-> MatMul(proj, params.transform),
         tex_pos   |-> tex_coords(spritesheet, sprite.position),
         tex_dims  |-> tex_dims(spritesheet, sprite.size),
         tint      |-> params.tint,
         z_index   |-> params.depth]

\* a push that inserts at the front
push_front(q, inst) == <<inst>> \o q

\* a push that appends the instance twice
push_twice(q, inst) == Append(Append(q, inst), inst)

\* Vec::push: appends at the end, growing the allocation when it is full
push(q, inst) == Append(q, inst)

\* the capacity after a push onto len elements (RawVec::grow_amortized doubles)
push_capacity(len, cap) ==
    IF len < cap THEN cap ELSE Max(Max(cap * 2, len + 1), 4)

\* the value of call in a state that no call on the renderer produced: the state
\* new leaves, and the states the GPU and the driver produce on their own
NoCall == [op |-> "none", pre_len |-> 0, submitted |-> 0]

Draw(r) ==
    /\ status = "ok"
    /\ draws_left > 0
    /\ queue' = push(queue, MakeInstance(proj_matrix, DrawRequests[r].sprite,
                                         DrawRequests[r].params))
    /\ queue_capacity' = push_capacity(Len(queue), queue_capacity)
    /\ issued' = Append(issued, <<r, window_size>>)
    /\ draws_left' = draws_left - 1
    /\ call' = [op |-> "draw", pre_len |-> Len(queue), submitted |-> 0]
    /\ UNCHANGED <<proj_matrix, depth_texture, belt, staging_mem, pending_maps,
                   gpu_queue, instance_buf, rendered, status, window_size, submissions,
                   completions_left>>

----------------------------------------------------------------------------
(* SpriteRenderer::resize *)

\* create_depth_texture: a depth texture (with its view and sampler) of this extent
create_depth_texture(size) == [width |-> size[1], height |-> size[2]]

\* a resize that keeps the projection it had
resize_proj_stale(size) == proj_matrix

resize_proj(size) == compute_proj_matrix(size)
resize_depth(size) == create_depth_texture(size)

Resize(size) ==
    /\ status = "ok"
    /\ proj_matrix' = resize_proj(size)
    /\ depth_texture' = resize_depth(size)
    /\ window_size' = size
    /\ call' = [op |-> "resize", pre_len |-> Len(queue), submitted |-> 0]
    /\ UNCHANGED <<queue, queue_capacity, belt, staging_mem, pending_maps, gpu_queue,
                   instance_buf, rendered, status, issued, submissions, draws_left,
                   completions_left>>

----------------------------------------------------------------------------
(* wgpu::util::StagingBelt, as SpriteRenderer::submit drives it.           *)
(* A chunk is [buffer, size, offset]: a staging buffer, its byte size and  *)
(* the first byte of it not yet handed out.                                *)

\* StagingBelt::new(chunk_size)
NewBelt(chunk_size) ==
    [chunk_size |-> chunk_size, active_chunks |-> <<>>, closed_chunks |-> <<>>,
     free_chunks |-> <<>>, receiver |-> <<>>]

\* Vec::swap_remove(index): the last element takes the place of the removed one
swap_remove(s, index) ==
    IF index = Len(s) THEN SubSeq(s, 1, Len(s) - 1)
    ELSE [i \in 1..(Len(s) - 1) |-> IF i = index THEN s[Len(s)] ELSE s[i]]

\* Iterator::position: the first index whose chunk has room, 0 when there is none
position_active(chunks, size) ==
    LET ok == {i \in 1..Len(chunks) : chunks[i].offset + size <= chunks[i].size}
    IN  IF ok = {} THEN 0 ELSE CHOOSE i \in ok : \A j \in ok : i <= j

position_free(chunks, size) ==
    LET ok == {i \in 1..Len(chunks) : size <= chunks[i].size}
    IN  IF ok = {} THEN 0 ELSE CHOOSE i \in ok : \A j \in ok : i <= j

align_to(value, alignment) ==
    IF value % alignment = 0 THEN value ELSE value + alignment - (value % alignment)

\* StagingBelt::receive_chunks: every chunk a map callback sent becomes free again
receive_chunks(b) ==
    [b EXCEPT !.free_chunks =
                  b.free_chunks \o [i \in 1..Len(b.receiver) |->
                                       [b.receiver[i] EXCEPT !.offset = 0]],
              !.receiver = <<>>]

\* StagingBelt::recall (line 117): receive, then map_async every closed chunk; the
\* callback of each sends the chunk back once the buffer is mapped again
recall_belt(b) == [receive_chunks(b) EXCEPT !.closed_chunks = <<>>]
recall_maps(b, maps) == maps \o b.closed_chunks

\* StagingBelt::write_buffer (lines 120-126): the chunk the write lands in, and the
\* belt without it. created is TRUE when a new staging buffer had to be allocated.
write_buffer_pick(b, size, new_buffer) ==
    LET ia == position_active(b.active_chunks, size)
        b2 == receive_chunks(b)
        if == position_free(b2.free_chunks, size)
    IN  IF ia # 0
        THEN [chunk   |-> b.active_chunks[ia],
              belt    |-> [b EXCEPT !.active_chunks = swap_remove(b.active_chunks, ia)],
              created |-> FALSE]
        ELSE IF if # 0
        THEN [chunk   |-> b2.free_chunks[if],
              belt    |-> [b2 EXCEPT !.free_chunks = swap_remove(b2.free_chunks, if)],
              created |-> FALSE]
        ELSE [chunk   |-> [buffer |-> new_buffer,
                           size   |-> Max(b.chunk_size, size),
                           offset |-> 0],
              belt    |-> b2,
              created |-> TRUE]

\* the rest of write_buffer: the chunk goes back to the active list, advanced
write_buffer_push(b, chunk, size) ==
    [b EXCEPT !.active_chunks =
        Append(b.active_chunks,
               [chunk EXCEPT !.offset = align_to(chunk.offset + size, MAP_ALIGNMENT)])]

\* StagingBelt::finish (line 129): every active chunk is unmapped and closed
finish(b) ==
    [b EXCEPT !.closed_chunks = b.closed_chunks \o b.active_chunks,
              !.active_chunks = <<>>]

----------------------------------------------------------------------------
(* Buffer mapping: when the driver grants a map_async request.             *)

\* a staging buffer is still read by a command buffer the GPU has not executed
BufferInUse(buffer) ==
    \E i \in 1..Len(gpu_queue) :
        \E c \in 1..Len(gpu_queue[i].commands) :
            /\ gpu_queue[i].commands[c].op = "copy_buffer_to_buffer"
            /\ gpu_queue[i].commands[c].src = buffer

\* a map request granted without waiting for the GPU
MapReady_at_once(chunk) == TRUE

\* a map_async request is granted once no unfinished submission uses the buffer
MapReady(chunk) == ~BufferInUse(chunk.buffer)

MapWaiting(chunk) == ~MapReady(chunk)

\* Device::poll / maintain: the callbacks of the granted map_async requests run, and
\* each sends its chunk into the belt's channel; the others stay pending
poll_receiver(b, maps) == [b EXCEPT !.receiver = @ \o SelectSeq(maps, MapReady)]
poll_maps(maps) == SelectSeq(maps, MapWaiting)

----------------------------------------------------------------------------
(* SpriteRenderer::submit *)

\* the commands submit records into its encoder, in recording order:
\* write_buffer's copy_buffer_to_buffer, then the sprite render pass
CopyCommand(chunk, byte_size) ==
    [op |-> "copy_buffer_to_buffer", src |-> chunk.buffer, src_offset |-> chunk.offset,
     dst |-> "sprite_instance_buf", dst_offset |-> 0, size |-> byte_size]

\* a render pass that issues one draw call per sprite
RenderPassCommand_draw_per_sprite(depth, count) ==
    [op |-> "render_pass", color_load |-> "clear", depth_view |-> depth,
     depth_load |-> "clear", instance_vertex_buf |-> "sprite_instance_buf",
     draws |-> [i \in 1..count |->
                   [indices |-> <<0, 6>>, base_vertex |-> 0, instances |-> <<i - 1, i>>]]]

RenderPassCommand(depth, count) ==
    [op |-> "render_pass", color_load |-> "clear", depth_view |-> depth,
     depth_load |-> "clear", instance_vertex_buf |-> "sprite_instance_buf",
     draws |-> << [indices |-> <<0, 6>>, base_vertex |-> 0, instances |-> <<0, count>>] >>]

\* an encoder into which the render pass is recorded before the upload
RecordCommands_pass_first(chunk, byte_size, depth, count) ==
    << RenderPassCommand(depth, count), CopyCommand(chunk, byte_size) >>

RecordCommands(chunk, byte_size, depth, count) ==
    << CopyCommand(chunk, byte_size), RenderPassCommand(depth, count) >>

\* a submit without its early return
is_empty_never(q) == FALSE

\* a submit whose early return is taken on the non-empty queue instead
is_empty_inverted(q) == Len(q) # 0

\* Vec::is_empty
is_empty(q) == Len(q) = 0

\* a submit that uploads the queue without taking it
replaced_queue_kept(q) == q

\* std::mem::replace(&mut self.queue, Vec::with_capacity(..)): the queue left behind
replaced_queue(q) == <<>>
replaced_capacity(cap) == MAX_SPRITES_PER_BATCH

Submit ==
    /\ status = "ok"
    /\ IF is_empty(queue)
       THEN /\ call' = [op |-> "submit", pre_len |-> 0, submitted |-> 0]
            /\ UNCHANGED <<queue, queue_capacity, proj_matrix, depth_texture, belt,
                           staging_mem, pending_maps, gpu_queue, instance_buf, rendered, status,
                           window_size, issued, submissions, draws_left,
                           completions_left>>
       ELSE LET q         == queue
                byte_size == Len(q) * SIZE_OF_SPRITE_INSTANCE
                recalled  == recall_belt(belt)
                maps      == recall_maps(belt, pending_maps)
                pick      == write_buffer_pick(recalled, byte_size, Len(staging_mem) + 1)
                written   == write_buffer_push(pick.belt, pick.chunk, byte_size)
                cmds      == RecordCommands(pick.chunk, byte_size, depth_texture, Len(q))
                mem       == IF pick.created
                             THEN Append(staging_mem, [offset |-> 0, data |-> <<>>])
                             ELSE staging_mem
            IN  /\ queue' = replaced_queue(q)
                /\ queue_capacity' = replaced_capacity(queue_capacity)
                /\ issued' = <<>>
                /\ call' = [op |-> "submit", pre_len |-> Len(q),
                            submitted |-> IF byte_size = 0 \/ byte_size > InstanceBufSize
                                          THEN 0 ELSE 1]
                /\ IF byte_size = 0
                   THEN \* NonZeroU64::new(0).unwrap() panics: recall() has run,
                        \* write_buffer has not been entered
                        /\ status' = "panicked"
                        /\ belt' = recalled
                        /\ pending_maps' = maps
                        /\ UNCHANGED <<staging_mem, gpu_queue, submissions>>
                   ELSE IF byte_size > InstanceBufSize
                   THEN \* a copy past the end of the instance buffer is refused
                        \* inside write_buffer, which has taken or created its
                        \* chunk by then and has not put it back
                        /\ status' = "panicked"
                        /\ belt' = pick.belt
                        /\ pending_maps' = maps
                        /\ staging_mem' = mem
                        /\ UNCHANGED <<gpu_queue, submissions>>
                   ELSE /\ status' = status
                        \* ctx.queue.submit ends by polling the device. The chunk
                        \* of the new command buffer is not among maps, so the
                        \* requests that are ready are those ready before it
                        /\ pending_maps' = poll_maps(maps)
                        /\ belt' = poll_receiver(finish(written), maps)
                        /\ staging_mem' =
                               [mem EXCEPT ![pick.chunk.buffer] =
                                   [offset |-> pick.chunk.offset, data |-> q]]
                        /\ gpu_queue' =
                               Append(gpu_queue,
                                      [index    |-> submissions + 1,
                                       commands |-> cmds,
                                       requests |-> issued])
                        /\ submissions' = submissions + 1
                /\ UNCHANGED <<proj_matrix, depth_texture, instance_buf, rendered,
                               window_size, draws_left, completions_left>>

----------------------------------------------------------------------------
(* create_sprite_pipeline: the per-instance vertex buffer layout, and the   *)
(* bytes of a SpriteInstance it is read from.                               *)

SIZE_OF_F32 == 4

\* the fields of SpriteInstance in declaration order (repr(C)), with their f32 counts
SpriteInstanceFields ==
    << [name |-> "transform", floats |-> 9], [name |-> "tex_pos", floats |-> 2],
       [name |-> "tex_dims", floats |-> 2], [name |-> "tint", floats |-> 3],
       [name |-> "z_index", floats |-> 1] >>

\* VertexFormat::size, in bytes
VertexFormatSize(format) ==
    CASE format = "Float32"   -> 1 * SIZE_OF_F32
      [] format = "Float32x2" -> 2 * SIZE_OF_F32
      [] format = "Float32x3" -> 3 * SIZE_OF_F32

\* a layout whose tint attribute starts one float early
InstanceAttributes_tint_early ==
    << [offset |-> 0, shader_location |-> 2, format |-> "Float32x3"],
       [offset |-> 3 * SIZE_OF_F32, shader_location |-> 3, format |-> "Float32x3"],
       [offset |-> 6 * SIZE_OF_F32, shader_location |-> 4, format |-> "Float32x3"],
       [offset |-> 9 * SIZE_OF_F32, shader_location |-> 5, format |-> "Float32x2"],
       [offset |-> 11 * SIZE_OF_F32, shader_location |-> 6, format |-> "Float32x2"],
       [offset |-> 12 * SIZE_OF_F32, shader_location |-> 7, format |-> "Float32x3"],
       [offset |-> 16 * SIZE_OF_F32, shader_location |-> 8, format |-> "Float32"] >>

\* the attributes of the VertexBufferLayout with step mode Instance, in order
InstanceAttributes ==
    << [offset |-> 0, shader_location |-> 2, format |-> "Float32x3"],
       [offset |-> 3 * SIZE_OF_F32, shader_location |-> 3, format |-> "Float32x3"],
       [offset |-> 6 * SIZE_OF_F32, shader_location |-> 4, format |-> "Float32x3"],
       [offset |-> 9 * SIZE_OF_F32, shader_location |-> 5, format |-> "Float32x2"],
       [offset |-> 11 * SIZE_OF_F32, shader_location |-> 6, format |-> "Float32x2"],
       [offset |-> 13 * SIZE_OF_F32, shader_location |-> 7, format |-> "Float32x3"],
       [offset |-> 16 * SIZE_OF_F32, shader_location |-> 8, format |-> "Float32"] >>

\* array_stride of that layout: size_of::<SpriteInstance>()
InstanceArrayStride == SIZE_OF_SPRITE_INSTANCE

\* cast_slice(&queue): the f32 words of one instance, fields in declaration order;
\* the transform is Matrix3::into::<[[f32; 3]; 3]>(), its three columns in turn
InstanceWords(inst) ==
    inst.transform[1] \o inst.transform[2] \o inst.transform[3]
    \o inst.tex_pos \o inst.tex_dims \o inst.tint \o << inst.z_index >>

\* the words the vertex fetch hands to the shader for one attribute of one instance
FetchAttribute(words, attr) ==
    SubSeq(words, attr.offset \div SIZE_OF_F32 + 1,
           (attr.offset + VertexFormatSize(attr.format)) \div SIZE_OF_F32)

----------------------------------------------------------------------------
(* create_sprite_pipeline and create_quad_vertex_buf: the primitive state  *)
(* and the shared quad, and how the rasterizer culls a triangle.           *)

\* a pipeline that declares clockwise triangles as front-facing
PrimitiveState_front_cw ==
    [topology |-> "TriangleList", front_face |-> "Cw", cull_mode |-> "Back"]

\* the PrimitiveState of the render pipeline
PrimitiveState ==
    [topology |-> "TriangleList", front_face |-> "Ccw", cull_mode |-> "Back"]

\* vertex_data: [x, y, u, v] of the four corners of the quad
QuadVertices ==
    << [pos |-> <<0, 0>>, uv |-> <<0, 1>>], [pos |-> <<1, 0>>, uv |-> <<1, 1>>],
       [pos |-> <<1, 1>>, uv |-> <<1, 0>>], [pos |-> <<0, 1>>, uv |-> <<0, 0>>] >>

\* index_data
QuadIndices == <<0, 1, 2, 0, 2, 3>>

\* draw_indexed(0..6, 0, ..) with a triangle list: the corners of triangle t
QuadTriangle(t) ==
    [k \in 1..3 |-> QuadVertices[QuadIndices[3 * (t - 1) + k] + 1].pos]

\* a - b on f32; the numerator carries the sign
FSub(a, b) ==
    LET g == GCD(a[2], b[2])
    IN  Frac(a[1] * (b[2] \div g) - b[1] * (a[2] \div g), (a[2] \div g) * b[2])

\* the vertex shader's output position: the x and y of transform * (x, y, 1)
vs_position(transform, pos) ==
    << FAdd(FAdd(FMul(transform[1][1], FInt(pos[1])), FMul(transform[2][1], FInt(pos[2]))),
            transform[3][1]),
       FAdd(FAdd(FMul(transform[1][2], FInt(pos[1])), FMul(transform[2][2], FInt(pos[2]))),
            transform[3][2]) >>

\* twice the signed area of the triangle p in normalized device coordinates (y up)
SignedArea2(p) ==
    FSub(FMul(FSub(p[2][1], p[1][1]), FSub(p[3][2], p[1][2])),
         FMul(FSub(p[3][1], p[1][1]), FSub(p[2][2], p[1][2])))

\* FrontFace: the order in which a triangle's vertices go round on screen
Winding(p) ==
    IF SignedArea2(p)[1] > 0 THEN "Ccw"
    ELSE IF SignedArea2(p)[1] < 0 THEN "Cw" ELSE "Degenerate"

\* the rasterizer: a triangle is front-facing when it winds as front_face says, and
\* cull_mode names the facing that is discarded
FrontFacing(state, p) == Winding(p) = state.front_face
Culled(state, p) ==
    \/ state.cull_mode = "Back" /\ ~FrontFacing(state, p)
    \/ state.cull_mode = "Front" /\ FrontFacing(state, p)

----------------------------------------------------------------------------
(* The GPU: it executes the submitted command buffers in submission order, *)
(* each command buffer's commands in recording order, at its own pace.     *)

\* what a byte the program never wrote reads as
Stale == "stale"

\* the count instances a copy reads from a staging buffer at src_offset
StaleRun(count) == [i \in 1..count |-> Stale]

ReadStaging(mem, src_offset, count) ==
    IF mem.offset # src_offset THEN StaleRun(count)
    ELSE IF count <= Len(mem.data) THEN SubSeq(mem.data, 1, count)
    ELSE mem.data \o StaleRun(count - Len(mem.data))

\* buf with data written over the slots first+1 .. first+Len(data)
WriteAt(buf, first, data) ==
    (IF first <= Len(buf) THEN SubSeq(buf, 1, first)
     ELSE buf \o StaleRun(first - Len(buf)))
    \o data
    \o SubSeq(buf, first + Len(data) + 1, Len(buf))

\* the instances an instanced draw fetches from the instance buffer
FetchInstances(buf, range) ==
    IF range[2] <= Len(buf) THEN SubSeq(buf, range[1] + 1, range[2])
    ELSE SubSeq(buf, range[1] + 1, Len(buf)) \o StaleRun(range[2] - Max(range[1], Len(buf)))

ExecCopy(cmd, buf, mem) ==
    WriteAt(buf, cmd.dst_offset \div SIZE_OF_SPRITE_INSTANCE,
            ReadStaging(mem[cmd.src], cmd.src_offset, cmd.size \div SIZE_OF_SPRITE_INSTANCE))

ExecPass(cmd, buf) ==
    [depth |-> cmd.depth_view,
     draws |-> [d \in 1..Len(cmd.draws) |-> FetchInstances(buf, cmd.draws[d].instances)]]

\* runs cmds in order from the state st = [buf, passes]
RECURSIVE ExecCommands(_, _, _)
ExecCommands(cmds, st, mem) ==
    IF cmds = <<>> THEN st
    ELSE LET c == Head(cmds)
         IN  ExecCommands(Tail(cmds),
                 IF c.op = "copy_buffer_to_buffer"
                 THEN [st EXCEPT !.buf = ExecCopy(c, st.buf, mem)]
                 ELSE [st EXCEPT !.passes = Append(st.passes, ExecPass(c, st.buf))],
                 mem)

GpuComplete ==
    /\ gpu_queue # <<>>
    /\ completions_left > 0
    /\ LET cb  == Head(gpu_queue)
           out == ExecCommands(cb.commands, [buf |-> instance_buf, passes |-> <<>>],
                               staging_mem)
       IN  /\ instance_buf' = out.buf
           /\ rendered' = [index |-> cb.index, passes |-> out.passes,
                           requests |-> cb.requests]
    /\ gpu_queue' = Tail(gpu_queue)
    /\ completions_left' = completions_left - 1
    /\ call' = NoCall
    /\ UNCHANGED <<queue, queue_capacity, proj_matrix, depth_texture, belt,
                   staging_mem, pending_maps, status, window_size, issued, submissions,
                   draws_left>>

\* the device is polled outside submit (by the application or by another submit on
\* the same queue), once the GPU has got further
DevicePoll ==
    /\ \E i \in 1..Len(pending_maps) : MapReady(pending_maps[i])
    /\ belt' = poll_receiver(belt, pending_maps)
    /\ pending_maps' = poll_maps(pending_maps)
    /\ call' = NoCall
    /\ UNCHANGED <<queue, queue_capacity, proj_matrix, depth_texture, staging_mem,
                   gpu_queue,
                   instance_buf, rendered, status, window_size, issued, submissions,
                   draws_left, completions_left>>

----------------------------------------------------------------------------
(* SpriteRenderer::new and the specification *)

\* the window size new is given
InitialWindowSize == <<800, 600>>

Init ==
    /\ window_size = InitialWindowSize
    /\ queue = <<>>
    /\ queue_capacity = MAX_SPRITES_PER_BATCH
    /\ proj_matrix = compute_proj_matrix(window_size)
    /\ depth_texture = create_depth_texture(window_size)
    /\ belt = NewBelt(BeltChunkSize)
    /\ staging_mem = <<>>
    /\ pending_maps = <<>>
    /\ gpu_queue = <<>>
    /\ instance_buf = <<>>
    /\ rendered = [index |-> 0, passes |-> <<>>, requests |-> <<>>]
    /\ status = "ok"
    /\ issued = <<>>
    /\ call = NoCall
    /\ submissions = 0
    /\ draws_left = MaxDraws
    /\ completions_left = MaxCompletions

Next ==
    \/ \E r \in 1..Len(DrawRequests) : Draw(r)
    \/ \E size \in WindowSizes : Resize(size)
    \/ Submit
    \/ GpuComplete
    \/ DevicePoll

Spec == Init /\ [][Next]_vars

----------------------------------------------------------------------------
(* The renderer one draw short of a full queue: the state new followed by  *)
(* MAX_SPRITES_PER_BATCH - 1 draw calls of the same sprite leaves.         *)

InitNearCapacity ==
    /\ window_size = InitialWindowSize
    /\ queue = [i \in 1..(MAX_SPRITES_PER_BATCH - 1) |->
                   MakeInstance(compute_proj_matrix(window_size),
                                DrawRequests[1].sprite, DrawRequests[1].params)]
    /\ queue_capacity = MAX_SPRITES_PER_BATCH
    /\ issued = [i \in 1..(MAX_SPRITES_PER_BATCH - 1) |-> <<1, window_size>>]
    /\ proj_matrix = compute_proj_matrix(window_size)
    /\ depth_texture = create_depth_texture(window_size)
    /\ belt = NewBelt(BeltChunkSize)
    /\ staging_mem = <<>>
    /\ pending_maps = <<>>
    /\ gpu_queue = <<>>
    /\ instance_buf = <<>>
    /\ rendered = [index |-> 0, passes |-> <<>>, requests |-> <<>>]
    /\ status = "ok"
    /\ call = [op |-> "draw", pre_len |-> MAX_SPRITES_PER_BATCH - 2, submitted |-> 0]
    /\ submissions = 0
    /\ draws_left = MaxLoadedDraws
    /\ completions_left = MaxLoadedCompletions

\* the calls explored from a loaded renderer: the window is not resized meanwhile
NextLoaded ==
    \/ \E r \in 1..Len(DrawRequests) : Draw(r)
    \/ Submit
    \/ GpuComplete
    \/ DevicePoll

SpecNearCapacity == InitNearCapacity /\ [][NextLoaded]_vars

----------------------------------------------------------------------------
(* The renderer with a backlog on the GPU: the state new followed by       *)
(* MAX_BATCHES rounds of one draw and one submit leaves when the GPU has   *)
(* executed none of the submitted command buffers yet.                     *)

\* a chunk of the belt after its only write of count instances
UsedChunk(buffer, count) ==
    [buffer |-> buffer, size |-> BeltChunkSize,
     offset |-> align_to(count * SIZE_OF_SPRITE_INSTANCE, MAP_ALIGNMENT)]

\* the belt, staging memory, map requests and GPU queue after n such rounds
BacklogBelt(n) ==
    [NewBelt(BeltChunkSize) EXCEPT !.closed_chunks = << UsedChunk(n, 1) >>]
BacklogMaps(n) == [i \in 1..(n - 1) |-> UsedChunk(i, 1)]
BacklogMem(n, size) ==
    [i \in 1..n |->
        [offset |-> 0,
         data   |-> << MakeInstance(compute_proj_matrix(size), DrawRequests[1].sprite,
                                    DrawRequests[1].params) >>]]
BacklogGpuQueue(n, size) ==
    [i \in 1..n |->
        [index    |-> i,
         commands |-> RecordCommands([buffer |-> i, size |-> BeltChunkSize, offset |-> 0],
                                     SIZE_OF_SPRITE_INSTANCE,
                                     create_depth_texture(size), 1),
         requests |-> << <<1, size>> >>]]

InitBacklog ==
    /\ window_size = InitialWindowSize
    /\ queue = <<>>
    /\ queue_capacity = MAX_SPRITES_PER_BATCH
    /\ issued = <<>>
    /\ proj_matrix = compute_proj_matrix(window_size)
    /\ depth_texture = create_depth_texture(window_size)
    /\ belt = BacklogBelt(MAX_BATCHES)
    /\ staging_mem = BacklogMem(MAX_BATCHES, window_size)
    /\ pending_maps = BacklogMaps(MAX_BATCHES)
    /\ gpu_queue = BacklogGpuQueue(MAX_BATCHES, window_size)
    /\ instance_buf = <<>>
    /\ rendered = [index |-> 0, passes |-> <<>>, requests |-> <<>>]
    /\ status = "ok"
    /\ call = [op |-> "submit", pre_len |-> 1, submitted |-> 1]
    /\ submissions = MAX_BATCHES
    /\ draws_left = MaxLoadedDraws
    /\ completions_left = MaxLoadedCompletions

SpecBacklog == InitBacklog /\ [][NextLoaded]_vars

\* The two loaded starting states have the shape the calls really produce: with 3
\* in place of MAX_SPRITES_PER_BATCH - 1 and of MAX_BATCHES, Spec reaches them.
ShortOfNearCapacityShape ==
    ~ /\ Len(queue) = 3
      /\ \A i \in 1..3 :
            queue[i] = MakeInstance(compute_proj_matrix(InitialWindowSize),
                                    DrawRequests[1].sprite, DrawRequests[1].params)
      /\ issued = [i \in 1..3 |-> <<1, InitialWindowSize>>]
      /\ queue_capacity = MAX_SPRITES_PER_BATCH
      /\ belt = NewBelt(BeltChunkSize)
      /\ gpu_queue = <<>> /\ staging_mem = <<>> /\ pending_maps = <<>>
      /\ instance_buf = <<>> /\ submissions = 0 /\ status = "ok"
      /\ call = [op |-> "draw", pre_len |-> 2, submitted |-> 0]

ShortOfBacklogShape ==
    ~ /\ queue = <<>> /\ issued = <<>>
      /\ queue_capacity = MAX_SPRITES_PER_BATCH
      /\ window_size = InitialWindowSize
      /\ belt = BacklogBelt(3)
      /\ staging_mem = BacklogMem(3, InitialWindowSize)
      /\ pending_maps = BacklogMaps(3)
      /\ gpu_queue = BacklogGpuQueue(3, InitialWindowSize)
      /\ instance_buf = <<>> /\ submissions = 3 /\ status = "ok"
      /\ call = [op |-> "submit", pre_len |-> 1, submitted |-> 1]

----------------------------------------------------------------------------
(* The projection on its own: a renderer constructed for any window size   *)
(* of a grid, and resized to any other, with no draw in between.           *)

\* the window sizes (w, h) compute_proj_matrix is applied to
ProjSizes ==
    ((1..MaxSide) \X (1..MaxSide)) \cup { <<800, 600>>, <<600, 800>>, <<500, 500>> }

InitProj ==
    /\ window_size \in ProjSizes
    /\ queue = <<>>
    /\ queue_capacity = MAX_SPRITES_PER_BATCH
    /\ proj_matrix = compute_proj_matrix(window_size)
    /\ depth_texture = create_depth_texture(window_size)
    /\ belt = NewBelt(BeltChunkSize)
    /\ staging_mem = <<>>
    /\ pending_maps = <<>>
    /\ gpu_queue = <<>>
    /\ instance_buf = <<>>
    /\ rendered = [index |-> 0, passes |-> <<>>, requests |-> <<>>]
    /\ status = "ok"
    /\ issued = <<>>
    /\ call = NoCall
    /\ submissions = 0
    /\ draws_left = MaxDraws
    /\ completions_left = MaxCompletions

NextProj == \E size \in ProjSizes : Resize(size)

SpecProj == InitProj /\ [][NextProj]_vars

----------------------------------------------------------------------------
(* Properties. *)

\* the instance a recorded draw request <<request number, window size>> stands for
ExpectedProj == [size \in WindowSizes |-> compute_proj_matrix(size)]
ExpectedInstances ==
    [r \in 1..Len(DrawRequests), size \in WindowSizes |->
        MakeInstance(ExpectedProj[size], DrawRequests[r].sprite,
                     DrawRequests[r].params)]
\* every instance a draw can queue
DrawableInstances ==
    {ExpectedInstances[r, size] : r \in 1..Len(DrawRequests), size \in WindowSizes}
ExpectedInstance(entry) == ExpectedInstances[entry[1], entry[2]]
ExpectedBatch(requests) == [i \in 1..Len(requests) |-> ExpectedInstance(requests[i])]

IsCopy(cmd) == cmd.op = "copy_buffer_to_buffer"
IsPass(cmd) == cmd.op = "render_pass"
Copies(cb) == SelectSeq(cb.commands, IsCopy)
Passes(cb) == SelectSeq(cb.commands, IsPass)

\* what a copy command reads from staging memory as it is now
Uploaded(cp) ==
    ReadStaging(staging_mem[cp.src], cp.src_offset, cp.size \div SIZE_OF_SPRITE_INSTANCE)

\* the state the renderer and the GPU share, without the history variables
program == <<queue, queue_capacity, proj_matrix, depth_texture, belt, staging_mem,
             pending_maps, gpu_queue, instance_buf, rendered, submissions, status>>

JustSubmitted == call.op = "submit" /\ call.submitted = 1
LastSubmitted == gpu_queue[Len(gpu_queue)]

\* C1: the queue holds exactly the instances of the draws issued since the previous
\* submit, in issue order, and the submit that follows uploads exactly that batch:
\* one copy of N * size_of(SpriteInstance) bytes to offset 0 whose staging contents
\* are those N instances in order, drawn with the instance range 0..N.
C1_BatchIsTheDrawsInOrder ==
    /\ queue = ExpectedBatch(issued)
    /\ JustSubmitted =>
          /\ Len(LastSubmitted.requests) = call.pre_len
          /\ Len(Copies(LastSubmitted)) = 1
          /\ Copies(LastSubmitted)[1].dst_offset = 0
          /\ Copies(LastSubmitted)[1].size = call.pre_len * SIZE_OF_SPRITE_INSTANCE
          /\ Uploaded(Copies(LastSubmitted)[1]) = ExpectedBatch(LastSubmitted.requests)
          /\ \A p \in 1..Len(Passes(LastSubmitted)) :
                \A d \in 1..Len(Passes(LastSubmitted)[p].draws) :
                    Passes(LastSubmitted)[p].draws[d].instances = <<0, call.pre_len>>

\* a second or later submit has just uploaded a batch of two different sprites
C1_Witness ==
    /\ JustSubmitted
    /\ submissions >= 2
    /\ Len(LastSubmitted.requests) >= 2
    /\ LastSubmitted.requests[1][1] # LastSubmitted.requests[2][1]

\* C2: the queue never holds more than MAX_SPRITES_PER_BATCH instances.
C2_QueueWithinCapacity == Len(queue) <= MAX_SPRITES_PER_BATCH

\* C3: a draw issued on a queue that already holds MAX_SPRITES_PER_BATCH instances
\* ends in an error the caller sees.
C3_DrawAtCapacityFails ==
    (call.op = "draw" /\ call.pre_len >= MAX_SPRITES_PER_BATCH) => status # "ok"

\* C4: a submit on an empty queue submits nothing to the GPU and changes no part of
\* the renderer, the staging belt, the pending map requests or the GPU state.
C4_EmptySubmitIsNoOp ==
    [][(queue = <<>> /\ call'.op = "submit")
          => (UNCHANGED program /\ call'.submitted = 0)]_vars

\* an empty submit returned while an earlier batch was still closed on the belt
C4_Witness ==
    /\ call.op = "submit" /\ call.pre_len = 0 /\ call.submitted = 0
    /\ belt.closed_chunks # <<>>
    /\ gpu_queue # <<>>

\* C5: when a submit has returned the queue is empty with capacity
\* MAX_SPRITES_PER_BATCH, and a submit that directly follows a submit changes nothing.
C5_SubmitResetsQueue ==
    /\ [](call.op = "submit" =>
             (queue = <<>> /\ queue_capacity = MAX_SPRITES_PER_BATCH))
    /\ [][(call.op = "submit" /\ call'.op = "submit")
             => (UNCHANGED program /\ call'.submitted = 0)]_vars

\* a submit of two or more instances has returned
C5_Witness ==
    /\ JustSubmitted /\ call.pre_len >= 2
    /\ queue = <<>> /\ queue_capacity = MAX_SPRITES_PER_BATCH

\* C6: the projection and the depth target are both those of the window size given
\* to the latest new or resize; a draw composes its instance with that projection
\* and a submit renders against the depth target of that size.
C6_ResizeTakesEffect ==
    /\ proj_matrix = ExpectedProj[window_size]
    /\ depth_texture = create_depth_texture(window_size)
    /\ call.op = "draw" =>
          queue[Len(queue)] = ExpectedInstance(<<issued[Len(issued)][1], window_size>>)
    /\ JustSubmitted =>
          \A p \in 1..Len(Passes(LastSubmitted)) :
              Passes(LastSubmitted)[p].depth_view = create_depth_texture(window_size)

\* after a resize to another size, instances were drawn and then submitted
C6_Witness ==
    /\ JustSubmitted
    /\ window_size # InitialWindowSize
    /\ \A i \in 1..Len(LastSubmitted.requests) :
          LastSubmitted.requests[i][2] = window_size

\* C7: a staging buffer that a command buffer still waiting on the GPU copies from
\* is not available to the belt for another write, is not shared with another
\* waiting command buffer, and still holds what its own submit wrote.
C7_NoStagingReuseInFlight ==
    \A k \in 1..Len(gpu_queue) :
        \A c \in 1..Len(Copies(gpu_queue[k])) :
            LET cp == Copies(gpu_queue[k])[c]
            IN  /\ \A i \in 1..Len(belt.free_chunks) : belt.free_chunks[i].buffer # cp.src
                /\ \A i \in 1..Len(belt.receiver) : belt.receiver[i].buffer # cp.src
                /\ \A i \in 1..Len(belt.active_chunks) :
                      belt.active_chunks[i].buffer # cp.src
                /\ \A j \in 1..Len(gpu_queue) :
                      j # k => \A d \in 1..Len(Copies(gpu_queue[j])) :
                                   Copies(gpu_queue[j])[d].src # cp.src
                /\ Uploaded(cp) = ExpectedBatch(gpu_queue[k].requests)

\* a recycled staging buffer is in use again while an earlier submit is still waiting
C7_Witness ==
    /\ Len(gpu_queue) >= 2
    /\ Copies(LastSubmitted)[1].src < LastSubmitted.index - 1
    /\ Len(staging_mem) < submissions

\* C8: at most MAX_BATCHES staging regions are written and not yet reclaimed.
C8_InFlightRegionsBounded ==
    Len(belt.active_chunks) + Len(belt.closed_chunks) + Len(pending_maps) <= MAX_BATCHES

\* C9: every submitted command buffer holds the upload (a copy to offset 0) followed
\* by the render pass, a non-empty submit hands exactly one command buffer to the
\* GPU queue, and the GPU, when it executes a command buffer, draws exactly the
\* instances that the same submit uploaded.
C9_UploadThenDrawInOneBatch ==
    /\ \A k \in 1..Len(gpu_queue) :
          /\ Len(gpu_queue[k].commands) = 2
          /\ IsCopy(gpu_queue[k].commands[1])
          /\ gpu_queue[k].commands[1].dst_offset = 0
          /\ IsPass(gpu_queue[k].commands[2])
    /\ rendered.index > 0 =>
          /\ Len(rendered.passes) = 1
          /\ \A d \in 1..Len(rendered.passes[1].draws) :
                rendered.passes[1].draws[d] = ExpectedBatch(rendered.requests)
    /\ (call.op = "submit" /\ call.pre_len > 0) =>
          /\ call.submitted = 1
          /\ LastSubmitted.index = submissions
          /\ submissions = Len(gpu_queue) + (MaxCompletions - completions_left)

\* the GPU has executed one batch while two later, different batches are waiting
C9_Witness ==
    /\ call = NoCall
    /\ rendered.index >= 1
    /\ Len(gpu_queue) >= 2
    /\ gpu_queue[1].requests # rendered.requests
    /\ rendered.passes[1].draws[1] = ExpectedBatch(rendered.requests)

\* C10: every submitted command buffer holds exactly one render pass with exactly one
\* draw call: 6 indices and the instances 0..N, N the number of draws in the batch.
C10_OneInstancedDraw ==
    \A k \in 1..Len(gpu_queue) :
        /\ Len(Passes(gpu_queue[k])) = 1
        /\ Len(Passes(gpu_queue[k])[1].draws) = 1
        /\ Passes(gpu_queue[k])[1].draws[1].indices = <<0, 6>>
        /\ Passes(gpu_queue[k])[1].draws[1].instances = <<0, Len(gpu_queue[k].requests)>>
        /\ Len(gpu_queue[k].requests) > 0

\* a batch of three sprites has been submitted
C10_Witness ==
    /\ JustSubmitted /\ call.pre_len >= 3
    /\ Passes(LastSubmitted)[1].draws[1].instances = <<0, 3>>

\* C11: a draw makes the queue exactly one instance longer, leaves the instances
\* already queued unchanged and in place, records no GPU command, and leaves the
\* projection, the depth target, the staging belt and the instance buffer unchanged.
C11_DrawIsPureAppend ==
    [][call'.op = "draw" =>
          /\ Len(queue') = Len(queue) + 1
          /\ SubSeq(queue', 1, Len(queue)) = queue
          /\ UNCHANGED <<proj_matrix, depth_texture, belt, staging_mem, pending_maps,
                         gpu_queue, instance_buf, rendered, submissions, status>>]_vars

\* a draw was appended behind an instance of another sprite while an earlier batch
\* was still waiting on the GPU
C11_Witness ==
    /\ call.op = "draw" /\ call.pre_len >= 1
    /\ Len(queue) = call.pre_len + 1
    /\ queue[Len(queue)] # queue[Len(queue) - 1]
    /\ gpu_queue # <<>>

\* C12: a submit that gets past its empty-queue check and asks the staging belt for
\* zero bytes, or for more bytes than the belt's chunk size, ends in a panic and
\* submits no command buffer.
C12_BadStagingRequestIsFatal ==
    LET byte_size == call.pre_len * SIZE_OF_SPRITE_INSTANCE
    IN  (/\ call.op = "submit" /\ call.pre_len > 0
         /\ (byte_size = 0 \/ byte_size > BeltChunkSize))
            => (status = "panicked" /\ call.submitted = 0)

\* f is an f32: a 24-bit significand over a power of two
IsF32(f) == f[2] > 0 /\ IsPow2(f[2]) /\ Abs(f[1]) < 2 ^ 24

\* f is the quotient n / d as f32 arithmetic gives it: an f32 no further from the
\* exact n / d than half a unit in the last place, |f - n/d| <= 2^-24 * n/d
IsQuotient(f, n, d) ==
    /\ IsF32(f)
    /\ Abs(f[1] * d - n * f[2]) <= (n * f[2]) \div (2 ^ 24)

\* C13: for a window of w by h pixels the projection is the non-uniform scale
\* (1, 1) when w = h, (h/w, 1) when w > h and (1, w/h) when h > w, the quotient
\* being the f32 quotient; (800,600) gives (3/4, 1), (600,800) gives (1, 3/4),
\* (500,500) gives (1, 1); both components are in (0, 1] and at least one is 1.
C13_ProjectionScale ==
    LET w == window_size[1]
        h == window_size[2]
        x == proj_matrix[1][1]
        y == proj_matrix[2][2]
    IN  /\ proj_matrix = << <<x, <<0, 1>>, <<0, 1>>>>, <<<<0, 1>>, y, <<0, 1>>>>,
                            <<<<0, 1>>, <<0, 1>>, <<1, 1>>>> >>
        /\ w = h => (x = <<1, 1>> /\ y = <<1, 1>>)
        /\ w > h => (IsQuotient(x, h, w) /\ y = <<1, 1>>)
        /\ h > w => (x = <<1, 1>> /\ IsQuotient(y, w, h))
        /\ window_size = <<800, 600>> => (x = <<3, 4>> /\ y = <<1, 1>>)
        /\ window_size = <<600, 800>> => (x = <<1, 1>> /\ y = <<3, 4>>)
        /\ window_size = <<500, 500>> => (x = <<1, 1>> /\ y = <<1, 1>>)
        /\ x[2] > 0 /\ 0 < x[1] /\ x[1] <= x[2]
        /\ y[2] > 0 /\ 0 < y[1] /\ y[1] <= y[2]
        /\ (x[1] = x[2] \/ y[1] = y[2])

\* a resize to the square window size has returned
C13_Witness ==
    /\ call.op = "resize"
    /\ window_size = <<500, 500>>
    /\ proj_matrix = Identity3

\* C14: the copy of every submitted command buffer writes the bytes
\* [0, N * size_of(SpriteInstance)) of the instance buffer, N the number of draws in
\* the batch, and that range ends neither past the instance buffer's size nor past
\* the staging belt's chunk size.
C14_CopyWithinFixedSizes ==
    \A k \in 1..Len(gpu_queue) :
        \A c \in 1..Len(Copies(gpu_queue[k])) :
            LET cp == Copies(gpu_queue[k])[c]
            IN  /\ cp.dst_offset = 0
                /\ cp.size = Len(gpu_queue[k].requests) * SIZE_OF_SPRITE_INSTANCE
                /\ cp.dst_offset + cp.size <= InstanceBufSize
                /\ cp.dst_offset + cp.size <= BeltChunkSize

\* C15: in every submitted batch all instances carry the projection of one window
\* size, and that size is the extent of the depth target the batch's render pass
\* is recorded against.
C15_BatchOfOneWindowSize ==
    \A k \in 1..Len(gpu_queue) :
        LET cb   == gpu_queue[k]
            data == Uploaded(Copies(cb)[1])
            size == <<Passes(cb)[1].depth_view.width, Passes(cb)[1].depth_view.height>>
        IN  \A i \in 1..Len(cb.requests) :
                data[i] = ExpectedInstance(<<cb.requests[i][1], size>>)

\* C16: no call panics at NonZeroU64::new(byte_size).unwrap(): whenever submit got
\* past its empty-queue check, byte_size = queue length * size_of(SpriteInstance)
\* was strictly positive, and so is the size of every copy it recorded.
C16_UnwrapNeverPanics ==
    /\ status = "ok"
    /\ (call.op = "submit" /\ call.submitted = 1) =>
          call.pre_len * SIZE_OF_SPRITE_INSTANCE > 0
    /\ \A k \in 1..Len(gpu_queue) :
          \A c \in 1..Len(Copies(gpu_queue[k])) : Copies(gpu_queue[k])[c].size > 0

\* a submit of the smallest batch, one instance, got past the check and the unwrap
C16_Witness ==
    /\ JustSubmitted /\ call.pre_len = 1
    /\ status = "ok"
    /\ Copies(LastSubmitted)[1].size = SIZE_OF_SPRITE_INSTANCE

\* the byte offset of field f of SpriteInstance: the sizes of the fields before it
RECURSIVE FieldOffset(_)
FieldOffset(f) ==
    IF f = 1 THEN 0
    ELSE FieldOffset(f - 1) + SpriteInstanceFields[f - 1].floats * SIZE_OF_F32

\* the byte range [first, past) of attribute a
AttrRange(a) ==
    <<InstanceAttributes[a].offset,
      InstanceAttributes[a].offset + VertexFormatSize(InstanceAttributes[a].format)>>

\* the layout on its own: 7 attributes, three vec3, two vec2, a vec3 and a scalar,
\* whose byte ranges are pairwise disjoint, contiguous from 0, in the field order
\* of SpriteInstance, and end at the array stride of 68 bytes
LayoutTilesTheStride ==
    /\ Len(InstanceAttributes) = 7
    /\ [a \in 1..7 |-> InstanceAttributes[a].format] =
          << "Float32x3", "Float32x3", "Float32x3", "Float32x2", "Float32x2",
             "Float32x3", "Float32" >>
    /\ AttrRange(1)[1] = 0
    /\ \A a \in 1..6 : AttrRange(a + 1)[1] = AttrRange(a)[2]
    /\ \A a, b \in 1..7 :
          a # b => (AttrRange(a)[2] <= AttrRange(b)[1] \/ AttrRange(b)[2] <= AttrRange(a)[1])
    /\ AttrRange(7)[2] = InstanceArrayStride
    /\ InstanceArrayStride = 68
    /\ AttrRange(1)[1] = FieldOffset(1) /\ AttrRange(3)[2] = FieldOffset(2)
    /\ AttrRange(4) = <<FieldOffset(2), FieldOffset(3)>>
    /\ AttrRange(5) = <<FieldOffset(3), FieldOffset(4)>>
    /\ AttrRange(6) = <<FieldOffset(4), FieldOffset(5)>>
    /\ AttrRange(7) = <<FieldOffset(5), FieldOffset(5) + SIZE_OF_F32>>

\* read through the layout, the words of inst give back its fields
ReadsBackItsFields(inst) ==
    LET words == InstanceWords(inst)
    IN  /\ Len(words) * SIZE_OF_F32 = InstanceArrayStride
        /\ \A a \in 1..3 :
              FetchAttribute(words, InstanceAttributes[a]) = inst.transform[a]
        /\ FetchAttribute(words, InstanceAttributes[4]) = inst.tex_pos
        /\ FetchAttribute(words, InstanceAttributes[5]) = inst.tex_dims
        /\ FetchAttribute(words, InstanceAttributes[6]) = inst.tint
        /\ FetchAttribute(words, InstanceAttributes[7]) = << inst.z_index >>

\* every instance a draw can queue reads back through the layout
DrawableReadBack == \A inst \in DrawableInstances : ReadsBackItsFields(inst)

\* C17: the per-instance layout has exactly 7 attributes: three vec3 over the
\* transform, vec2 tex origin, vec2 tex extent, vec3 tint, scalar z; their byte
\* ranges are pairwise disjoint, contiguous from 0, follow the field order of
\* SpriteInstance and end at the array stride of 68 bytes; read through the
\* layout, the bytes of the instance a draw queued give back its fields.
C17_InstanceLayoutIsPacked ==
    /\ LayoutTilesTheStride
    /\ DrawableReadBack
    /\ call.op = "draw" => queue[Len(queue)] \in DrawableInstances

\* the red, moved sprite was queued, and its last four words read as tint and z
C17_Witness ==
    /\ call.op = "draw"
    /\ queue[Len(queue)].tint = <<1, 0, 0>>
    /\ FetchAttribute(InstanceWords(queue[Len(queue)]), InstanceAttributes[6]) = <<1, 0, 0>>
    /\ FetchAttribute(InstanceWords(queue[Len(queue)]), InstanceAttributes[7]) = <<1>>

\* triangle t of the quad, in object space and as drawn for an instance
ObjectTriangle(t) == [k \in 1..3 |-> <<FInt(QuadTriangle(t)[k][1]), FInt(QuadTriangle(t)[k][2])>>]
DrawnTriangle(inst, t) == [k \in 1..3 |-> vs_position(inst.transform, QuadTriangle(t)[k])]

\* the linear part of the transform has a positive determinant
OrientationPreserving(m) ==
    FSub(FMul(m[1][1], m[2][2]), FMul(m[2][1], m[1][2]))[1] > 0

\* the winding of the quad's two triangles as the index buffer lists them
QuadWindings == [t \in 1..2 |-> Winding(ObjectTriangle(t))]

\* the instances a draw can queue whose transform preserves orientation only if
\* neither of their triangles is culled
DrawableUnculled ==
    {inst \in DrawableInstances :
        OrientationPreserving(inst.transform) =>
            \A t \in 1..2 : ~Culled(PrimitiveState, DrawnTriangle(inst, t))}

\* both triangles of the quad wind as w, which the pipeline declares front-facing
\* while it culls back faces, and the instance a draw queued, when its transform
\* preserves orientation, has neither of its triangles culled
QuadFrontWithWinding(w) ==
    /\ PrimitiveState.cull_mode = "Back"
    /\ PrimitiveState.front_face = w
    /\ QuadWindings = <<w, w>>
    /\ call.op = "draw" => queue[Len(queue)] \in DrawableUnculled

\* C18 as stated: the pipeline culls back faces and declares clockwise as the
\* front-face winding, both triangles of the quad are clockwise, and a quad with an
\* orientation-preserving transform is never culled.
C18_ClockwiseFrontMatchesQuad == QuadFrontWithWinding("Cw")

\* C18 as amended: the pipeline culls back faces and declares counter-clockwise as
\* the front-face winding, both triangles of the quad (indices 0,1,2 and 0,2,3) are
\* counter-clockwise, and a quad with an orientation-preserving transform is never
\* culled.
C18_CounterClockwiseFrontMatchesQuad == QuadFrontWithWinding("Ccw")

\* the scaled and moved sprite was queued for the tall window, and both of its
\* triangles reach the rasterizer counter-clockwise
C18_Witness ==
    /\ call.op = "draw"
    /\ window_size = <<600, 800>>
    /\ queue[Len(queue)].z_index = 1
    /\ OrientationPreserving(queue[Len(queue)].transform)
    /\ \A t \in 1..2 : Winding(DrawnTriangle(queue[Len(queue)], t)) = "Ccw"

====
